---- MODULE Spec2Model ----
(***************************************************************************)
(* State machine of the TicTacToe component                                *)
(* (src/tic_tac_toe_frontend/src/app/page.tsx).                            *)
(*                                                                         *)
(* The React state hooks are the variables.  Every event handler runs to   *)
(* completion, its setState calls are applied as one batch, and the effect *)
(* of lines 97-100 runs on the render that follows: handler, batch and     *)
(* effect are one action.  A callback handed to setTimeout keeps the       *)
(* makeMove of the render that scheduled it, so a pending timer carries    *)
(* that render's board, current and winner along with the chosen move.     *)
(***************************************************************************)
EXTENDS Integers, Sequences, FiniteSets, TLC

\* ---------------------------------------------------------------- bounds
\* most user operations that fit into the 500 ms delay of one timer
MaxDelayOps == 1
\* cap on the wins recorded in one behaviour's score
MaxScore == 1
\* cap on the number of timers set in one behaviour
MaxTimers == 1
\* largest index the public makeMove is called with in SpecApi
MaxIdx == 9

\* ------------------------------------------------------------- constants
null == "null"
Player == {"X", "O"}
BoardSize == 9
CellIdx == 0 .. (BoardSize - 1)
EMPTY_BOARD == [i \in CellIdx |-> null]

VARIABLES board, current, aiMode, winner, score, startingPlayer,
          timers, scheduled, played, lim, dirty, roundPoints

state == <<board, current, aiMode, winner, score, startingPlayer>>
vars == <<board, current, aiMode, winner, score, startingPlayer,
          timers, scheduled, played, lim, dirty, roundPoints>>

\* ------------------------------------------------------ array primitives
\* b[idx] of a JavaScript array: undefined (falsy) outside the elements
At(b, idx) == IF idx \in DOMAIN b THEN b[idx] ELSE null

\* b.length
Length(b) == IF DOMAIN b = {} THEN 0
             ELSE (CHOOSE m \in DOMAIN b : \A j \in DOMAIN b : j <= m) + 1

\* const n = b.slice(); n[idx] = v
SetCell(b, idx, v) ==
    [j \in (DOMAIN b) \cup {idx} |-> IF j = idx THEN v ELSE b[j]]

\* ------------------------------------------------------- pure functions
\* the middle column mistyped
lines_Typo == << <<0, 1, 2>>, <<3, 4, 5>>, <<6, 7, 8>>,
                 <<0, 3, 6>>, <<1, 4, 6>>, <<2, 5, 8>>,
                 <<0, 4, 8>>, <<2, 4, 6>> >>

lines == << <<0, 1, 2>>, <<3, 4, 5>>, <<6, 7, 8>>,
            <<0, 3, 6>>, <<1, 4, 7>>, <<2, 5, 8>>,
            <<0, 4, 8>>, <<2, 4, 6>> >>

\* the loop testing for X alone instead of any mark
RECURSIVE ScanLines_XOnly(_, _, _)
ScanLines_XOnly(b, ls, k) ==
    IF k > Len(ls) THEN null
    ELSE LET a == ls[k][1]
             bb == ls[k][2]
             c == ls[k][3]
         IN IF At(b, a) = "X" /\ At(b, a) = At(b, bb) /\ At(b, a) = At(b, c)
            THEN At(b, a)
            ELSE ScanLines_XOnly(b, ls, k + 1)

RECURSIVE ScanLines(_, _, _)
ScanLines(b, ls, k) ==
    IF k > Len(ls) THEN null
    ELSE LET a == ls[k][1]
             bb == ls[k][2]
             c == ls[k][3]
         IN IF At(b, a) # null /\ At(b, a) = At(b, bb) /\ At(b, a) = At(b, c)
            THEN At(b, a)
            ELSE ScanLines(b, ls, k + 1)

getWinner(b) == ScanLines(b, lines, 1)

getAvailableMoves(b) ==
    SelectSeq([k \in 1 .. Length(b) |-> k - 1],
              LAMBDA i : i \in DOMAIN b /\ b[i] = null)

isBoardFull(b) == \A i \in DOMAIN b : b[i] # null

\* ---------------------------------------------------------------- timers
\* lim holds the limits of the exploration and never changes.
\* age: user operations since the timer was set; crossed: a restart or
\* reset happened since it was set.  Both only observe.
Aged(ts, isRestart) ==
    [k \in 1 .. Len(ts) |->
        [ts[k] EXCEPT !.age = @ + 1, !.crossed = @ \/ isRestart]]

CanUserAct == \A k \in 1 .. Len(timers) : timers[k].age < lim.delay

\* aiMove that sets no timer on an empty board
aiMove_NoOpening(b, cur, ai, win, ts) ==
    IF ~ai \/ win # null \/ cur # "O"
    THEN timers' = ts /\ UNCHANGED scheduled
    ELSE LET open == getAvailableMoves(b)
         IN IF Len(open) > 0 /\ Len(open) < Length(b)
            THEN /\ scheduled < lim.timers
                 /\ scheduled' = scheduled + 1
                 /\ \E r \in 1 .. Len(open) :
                       timers' = Append(ts, [board |-> b, current |-> cur,
                                             winner |-> win, move |-> open[r],
                                             age |-> 0, crossed |-> FALSE])
            ELSE timers' = ts /\ UNCHANGED scheduled

\* aiMove, run by the effect on the render that shows b, cur, ai, win
aiMove(b, cur, ai, win, ts) ==
    IF ~ai \/ win # null \/ cur # "O"
    THEN timers' = ts /\ UNCHANGED scheduled
    ELSE LET open == getAvailableMoves(b)
         IN IF Len(open) > 0
            THEN /\ scheduled < lim.timers
                 /\ scheduled' = scheduled + 1
                 /\ \E r \in 1 .. Len(open) :
                       timers' = Append(ts, [board |-> b, current |-> cur,
                                             winner |-> win, move |-> open[r],
                                             age |-> 0, crossed |-> FALSE])
            ELSE timers' = ts /\ UNCHANGED scheduled

\* ---------------------------------------------------------- observation
Off == <<-1>>
ScenarioWin == <<0, 3, 1, 4, 2>>
ScenarioDraw == <<0, 1, 2, 4, 3, 6, 5, 7, 8>>
ScenarioTaken == <<0, 0>>
IsPrefix(s, t) == Len(s) <= Len(t) /\ SubSeq(t, 1, Len(s)) = s
Track(h, i) ==
    IF h # Off /\ \E sc \in {ScenarioWin, ScenarioDraw, ScenarioTaken} :
                    IsPrefix(Append(h, i), sc)
    THEN Append(h, i) ELSE Off

\* ------------------------------------------------------------- makeMove
\* the guard without its test of the cell
Ignored_NoCellTest(b, win, idx) == win # null

\* if (board[idx] || winner) return;
Ignored(b, win, idx) == At(b, idx) # null \/ win # null

\* the draw test ahead of the win test
Outcome_DrawFirst(newBoard) ==
    IF isBoardFull(newBoard) THEN "draw"
    ELSE IF getWinner(newBoard) # null THEN "win"
    ELSE "continue"

\* which of the three branches of makeMove a new board takes
Outcome(newBoard) ==
    IF getWinner(newBoard) # null THEN "win"
    ELSE IF isBoardFull(newBoard) THEN "draw"
    ELSE "continue"

\* body of makeMove as closed over the render that shows b, cur, win;
\* setScore takes the live score
makeMove(b, cur, win, idx) ==
    IF Ignored(b, win, idx)
    THEN UNCHANGED <<board, current, winner, score>>
    ELSE LET newBoard == SetCell(b, idx, cur)
             possibleWinner == getWinner(newBoard)
         IN CASE Outcome(newBoard) = "win" ->
                 /\ score.X + score.O < lim.score
                 /\ board' = newBoard
                 /\ winner' = possibleWinner
                 /\ score' = [score EXCEPT ![possibleWinner] = @ + 1]
                 /\ UNCHANGED current
              [] Outcome(newBoard) = "draw" ->
                 /\ board' = newBoard
                 /\ winner' = "Draw"
                 /\ UNCHANGED <<current, score>>
              [] OTHER ->
                 /\ board' = newBoard
                 /\ current' = (IF cur = "X" THEN "O" ELSE "X")
                 /\ UNCHANGED <<winner, score>>

\* ---------------------------------------------------------------- actions
\* dirty: a mark was placed since the last resetAll (or since creation);
\* roundPoints: points scored since the last restartGame or resetAll.
\* Both only observe.
Scored == (score'.X + score'.O) - (score.X + score.O)

Fresh ==
    /\ board = EMPTY_BOARD
    /\ current = "X"
    /\ aiMode = FALSE
    /\ winner = null
    /\ score = [X |-> 0, O |-> 0]
    /\ startingPlayer = "X"
    /\ timers = <<>>
    /\ scheduled = 0
    /\ played = <<>>
    /\ dirty = FALSE
    /\ roundPoints = 0

Init ==
    /\ Fresh
    /\ lim = [delay |-> MaxDelayOps, timers |-> MaxTimers, score |-> MaxScore]

\* the same machine explored one step further in every limit
InitDeep ==
    /\ Fresh
    /\ lim = [delay |-> MaxDelayOps + 1, timers |-> MaxTimers + 1,
              score |-> MaxScore + 1]

\* the same machine with two more timers and one more point
InitLong ==
    /\ Fresh
    /\ lim = [delay |-> MaxDelayOps, timers |-> MaxTimers + 2,
              score |-> MaxScore + 1]

\* onClick of cell i
UserMakeMove(i) ==
    /\ CanUserAct
    /\ makeMove(board, current, winner, i)
    /\ UNCHANGED <<aiMode, startingPlayer>>
    /\ IF Ignored(board, winner, i)
       THEN timers' = Aged(timers, FALSE) /\ UNCHANGED scheduled
       ELSE aiMove(board', current', aiMode', winner', Aged(timers, FALSE))
    /\ played' = Track(played, i)
    /\ dirty' = (dirty \/ ~Ignored(board, winner, i))
    /\ roundPoints' = roundPoints + Scored
    /\ UNCHANGED lim

\* the callback of setTimeout(() => makeMove(move), 500)
TimerFire ==
    /\ timers # <<>>
    /\ LET t == Head(timers)
       IN /\ makeMove(t.board, t.current, t.winner, t.move)
          /\ UNCHANGED <<aiMode, startingPlayer>>
          /\ IF Ignored(t.board, t.winner, t.move)
             THEN timers' = Tail(timers) /\ UNCHANGED scheduled
             ELSE aiMove(board', current', aiMode', winner', Tail(timers))
          /\ dirty' = (dirty \/ ~Ignored(t.board, t.winner, t.move))
    /\ roundPoints' = roundPoints + Scored
    /\ played' = Off
    /\ UNCHANGED lim

\* the starting player not alternated
NextStarting_Same(sp) == sp

\* const nextStarting = startingPlayer === "X" ? "O" : "X"
NextStarting(sp) == IF sp = "X" THEN "O" ELSE "X"

restartGame ==
    /\ CanUserAct
    /\ board' = EMPTY_BOARD
    /\ winner' = null
    /\ LET nextStarting == NextStarting(startingPlayer)
       IN /\ startingPlayer' = nextStarting
          /\ current' = nextStarting
    /\ UNCHANGED <<score, aiMode>>
    /\ aiMove(board', current', aiMode', winner', Aged(timers, TRUE))
    /\ played' = Off
    /\ roundPoints' = 0
    /\ UNCHANGED <<lim, dirty>>

\* resetAll without setStartingPlayer("X")
resetAll_KeepsStarting ==
    /\ CanUserAct
    /\ board' = EMPTY_BOARD
    /\ winner' = null
    /\ score' = [X |-> 0, O |-> 0]
    /\ aiMode' = FALSE
    /\ UNCHANGED startingPlayer
    /\ current' = "X"
    /\ aiMove(board', current', aiMode', winner', Aged(timers, TRUE))
    /\ played' = Off
    /\ dirty' = FALSE
    /\ roundPoints' = 0
    /\ UNCHANGED lim

resetAll ==
    /\ CanUserAct
    /\ board' = EMPTY_BOARD
    /\ winner' = null
    /\ score' = [X |-> 0, O |-> 0]
    /\ aiMode' = FALSE
    /\ startingPlayer' = "X"
    /\ current' = "X"
    /\ aiMove(board', current', aiMode', winner', Aged(timers, TRUE))
    /\ played' = Off
    /\ dirty' = FALSE
    /\ roundPoints' = 0
    /\ UNCHANGED lim

\* disabled without the test of the board
toggleDisabled_ScoreOnly == score.X > 0 \/ score.O > 0

\* disabled without the test of the score
toggleDisabled_BoardOnly == \E i \in DOMAIN board : board[i] # null

\* the "Play vs Computer" button
toggleDisabled ==
    score.X > 0 \/ score.O > 0 \/ \E i \in DOMAIN board : board[i] # null

toggleAI ==
    /\ CanUserAct
    /\ IF toggleDisabled
       THEN /\ UNCHANGED state
            /\ timers' = Aged(timers, FALSE)
            /\ UNCHANGED scheduled
       ELSE /\ aiMode' = ~aiMode
            /\ UNCHANGED <<board, current, winner, score, startingPlayer>>
            /\ aiMove(board', current', aiMode', winner', Aged(timers, FALSE))
    /\ played' = Off
    /\ UNCHANGED <<lim, dirty, roundPoints>>

Next ==
    \/ \E i \in CellIdx : UserMakeMove(i)
    \/ TimerFire
    \/ restartGame
    \/ resetAll
    \/ toggleAI

Spec == Init /\ [][Next]_vars

SpecDeep == InitDeep /\ [][Next]_vars

SpecLong == InitLong /\ [][Next]_vars

\* the event loop runs a timer whose delay has elapsed; one user operation
\* fits into a delay and one point is scored
InitLive ==
    /\ Fresh
    /\ lim = [delay |-> 1, timers |-> MaxTimers, score |-> 1]

SpecLive == InitLive /\ [][Next]_vars /\ WF_vars(TimerFire)

\* makeMove called through the public interface with any index 0..MaxIdx
NextApi ==
    \/ \E i \in 0 .. MaxIdx : UserMakeMove(i)
    \/ TimerFire
    \/ restartGame
    \/ resetAll
    \/ toggleAI

SpecApi == Init /\ [][NextApi]_vars

\* getWinner applied to any board of nine cells
InitWin ==
    /\ board \in [CellIdx -> Player \cup {null}]
    /\ current = "X"
    /\ aiMode = FALSE
    /\ winner = null
    /\ score = [X |-> 0, O |-> 0]
    /\ startingPlayer = "X"
    /\ timers = <<>>
    /\ scheduled = 0
    /\ played = Off
    /\ dirty = FALSE
    /\ roundPoints = 0
    /\ lim = [delay |-> MaxDelayOps, timers |-> MaxTimers, score |-> MaxScore]

EvalWinner ==
    /\ winner = null
    /\ winner' = getWinner(board)
    /\ UNCHANGED <<board, current, aiMode, score, startingPlayer, timers,
                   scheduled, played, lim, dirty, roundPoints>>

SpecWin == InitWin /\ [][EvalWinner]_vars

\* ============================================================ properties
\* The eight triples and fullness as the specification states them.
Triples == { {0, 1, 2}, {3, 4, 5}, {6, 7, 8}, {0, 3, 6}, {1, 4, 7},
             {2, 5, 8}, {0, 4, 8}, {2, 4, 6} }
HasTriple(b, m) == \E t \in Triples : \A k \in t : b[k] = m
AnyTriple(b) == \E m \in Player : HasTriple(b, m)
Full(b) == \A i \in CellIdx : b[i] # null
AnyUserMove == \E i \in CellIdx : UserMakeMove(i)
Zero == [X |-> 0, O |-> 0]
Bd(s) == [i \in CellIdx |-> s[i + 1]]

\* C1: a deferred computer move that executes when the round has a result,
\* or it is not O's turn, or the opponent mode is off, changes nothing.
C1_StaleMoveIsNoOp ==
    [][(TimerFire /\ (winner # null \/ current # "O" \/ ~aiMode))
          => UNCHANGED state]_vars

\* C2: a computer move that was scheduled before a restartGame or resetAll
\* changes nothing when it executes after it.
C2_MoveOfEarlierRoundIsNoOp ==
    [][(TimerFire /\ Head(timers).crossed) => UNCHANGED state]_vars

\* C3: in a step that is neither restartGame nor resetAll every marked cell
\* keeps its mark.
C3_BoardOnlyGrows ==
    [][~(restartGame \/ resetAll)
          => \A i \in CellIdx : board[i] # null => board'[i] = board[i]]_vars

\* C4: the cell a computer move writes was empty in the board as it stood
\* immediately before the move executed.
C4_ComputerWritesEmptyCell ==
    [][TimerFire => board[Head(timers).move] = null]_vars

\* C5: a placement that completes a triple sets the winner, adds exactly one
\* to the winner's score and keeps the turn; from then on no placement, from
\* the user or from a deferred computer move, changes anything; and the
\* moves X@0, O@3, X@1, O@4, X@2 on a fresh engine end with X the winner.
C5_WinEndsRound ==
    /\ [][(state' # state /\ AnyTriple(board') /\ winner \notin Player
             /\ (AnyUserMove \/ TimerFire))
            => /\ winner' \in Player
               /\ HasTriple(board', winner')
               /\ score' = [score EXCEPT ![winner'] = @ + 1]
               /\ current' = current]_vars
    /\ [][(winner \in Player /\ (AnyUserMove \/ TimerFire))
            => UNCHANGED state]_vars
    /\ [](played = ScenarioWin
            => /\ board = Bd(<<"X", "X", "X", "O", "O", null, null, null, null>>)
               /\ winner = "X"
               /\ score = [X |-> 1, O |-> 0])

\* C6: a user placement on an occupied cell, or after the round has a
\* result, leaves board, turn, result, score, opponent mode and starting
\* mark unchanged: a step that changes one of them is no such placement.
C6_IllegalPlacementIsNoOp ==
    [][UNCHANGED <<board, current, winner, score, aiMode, startingPlayer>>
         \/ \A i \in CellIdx :
               (board[i] # null \/ winner # null) => ~UserMakeMove(i)]_vars

\* cell 0 was clicked twice on a fresh engine; the second click found it taken
C6_Witness ==
    /\ played = ScenarioTaken
    /\ board = [EMPTY_BOARD EXCEPT ![0] = "X"]
    /\ current = "O"
    /\ winner = null

\* C7: makeMove with an index outside 0..8 leaves the state unchanged, and
\* the board has exactly 9 cells in every reachable state.
C7_OutOfRangeIsNoOp ==
    /\ [][\A i \in 0 .. MaxIdx :
             (i \notin CellIdx /\ UserMakeMove(i)) => UNCHANGED state]_vars
    /\ [](Length(board) = BoardSize)

\* C8: a placement that leaves the board full sets the result to Draw, with
\* score and turn as they were, when the full board holds no triple, and to
\* the winner, never Draw, when it holds one.
C8_DrawDetection ==
    [][(board' # board /\ Full(board') /\ (AnyUserMove \/ TimerFire))
          => IF AnyTriple(board')
             THEN winner' \in Player /\ HasTriple(board', winner')
             ELSE winner' = "Draw" /\ score' = score /\ current' = current]_vars

\* a round that ended in a draw
C8_Witness ==
    /\ winner = "Draw"
    /\ Full(board)
    /\ ~AnyTriple(board)
    /\ score = Zero

\* C9 as stated: after X@0, O@1, X@2, O@4, X@3, O@6, X@5, O@7, X@8 on a fresh
\* engine the board is full without a triple, the result is Draw and the
\* score is still zero.
C9_ScenarioIsDraw ==
    played = ScenarioDraw
       => /\ Full(board)
          /\ ~AnyTriple(board)
          /\ winner = "Draw"
          /\ score = Zero

\* C9 amended: the sequence ends with O@7 completing the column 1-4-7; O is
\* the winner with score {X:0, O:1}, and X@8 is ignored, cell 8 staying empty.
C9_ScenarioIsWinForO ==
    played = ScenarioDraw
       => /\ board = Bd(<<"X", "O", "X", "X", "O", "X", "O", "O", null>>)
          /\ winner = "O"
          /\ score = [X |-> 0, O |-> 1]
          /\ current = "O"

\* the nine calls of the scenario have been made
C9_Witness == played = ScenarioDraw /\ ~aiMode /\ timers = <<>>

\* C10: restartGame empties the board, clears the result, flips the starting
\* mark, gives the turn to the new starting mark, and keeps score and
\* opponent mode.
C10_RestartRound ==
    [][restartGame
          => /\ board' = [i \in CellIdx |-> null]
             /\ winner' = null
             /\ startingPlayer' # startingPlayer
             /\ startingPlayer' \in Player
             /\ current' = startingPlayer'
             /\ score' = score
             /\ aiMode' = aiMode]_vars

\* a round was restarted after a win: O now opens, the score is kept
C10_Witness ==
    /\ board = EMPTY_BOARD
    /\ winner = null
    /\ startingPlayer = "O"
    /\ current = "O"
    /\ score.X + score.O > 0

\* C11: resetAll leaves exactly the state of a freshly created engine:
\* empty board, no result, score zero, opponent mode off, X starting and
\* X to move.
C11_ResetAllIsFresh ==
    [][resetAll
          => /\ board' = [i \in CellIdx |-> null]
             /\ winner' = null
             /\ score' = Zero
             /\ aiMode' = FALSE
             /\ startingPlayer' = "X"
             /\ current' = "X"]_vars

\* a reset made while a computer move chosen on a marked board was pending
C11_Witness ==
    /\ ~dirty
    /\ timers # <<>>
    /\ Head(timers).board # EMPTY_BOARD
    /\ board = EMPTY_BOARD
    /\ winner = null
    /\ score = Zero
    /\ ~aiMode
    /\ startingPlayer = "X"
    /\ current = "X"

\* C12: a request to change the opponent mode made while the board holds a
\* mark or a score is not zero changes nothing, and the only steps that
\* change the opponent mode are such a request on an empty board with score
\* zero, and resetAll.
C12_ModeChangesOnlyWhenClean ==
    /\ [][((board # EMPTY_BOARD \/ score # Zero) /\ toggleAI)
            => UNCHANGED state]_vars
    /\ [][aiMode' # aiMode
            => \/ resetAll
               \/ (board = EMPTY_BOARD /\ score = Zero /\ toggleAI)]_vars

\* the mode was switched on and is now locked by a mark on the board
C12_Witness ==
    /\ aiMode
    /\ board # EMPTY_BOARD
    /\ scheduled > 0

\* C13 as stated: once a mark has been placed since the last resetAll, no
\* step other than resetAll changes the opponent mode.
C13_LockUntilResetAll ==
    [][(dirty /\ ~resetAll) => aiMode' = aiMode]_vars

\* C13 amended: the lock holds exactly while the board holds a mark or a
\* score is not zero; a request made on an empty board with score zero
\* changes the mode, also after marks were placed since the last resetAll.
C13_LockWhileMarkedOrScored ==
    [][toggleAI
          => ((aiMode' # aiMode) <=> (board = EMPTY_BOARD /\ score = Zero))]_vars

\* the mode is on, marks were placed since the last resetAll, and no
\* computer move was ever scheduled: it was switched on after those marks
C13_Witness ==
    /\ dirty
    /\ aiMode
    /\ scheduled = 0
    /\ score = Zero

\* C14: for every board of nine cells, getWinner of the board with X and O
\* exchanged is getWinner of the board with X and O exchanged in the result
\* (null stays null).
SwapMark(m) == IF m = "X" THEN "O" ELSE IF m = "O" THEN "X" ELSE m
SwapBoard(b) == [i \in DOMAIN b |-> SwapMark(b[i])]

C14_WinCheckSymmetric ==
    getWinner(SwapBoard(board)) = SwapMark(getWinner(board))

\* a board that holds a triple of each mark, evaluated
C14_Witness ==
    /\ HasTriple(board, "X")
    /\ HasTriple(board, "O")
    /\ winner = getWinner(board)
    /\ winner \in Player
    /\ getWinner(SwapBoard(board)) # winner

\* C15: in every reachable state the result is the evaluation of the
\* board: the winner is m exactly when a triple holds three m, Draw exactly
\* when the board is full without a triple, and none otherwise.
C15_ResultIsEvaluationOfBoard ==
    /\ \A m \in Player : (winner = m) <=> HasTriple(board, m)
    /\ (winner = "Draw") <=> (Full(board) /\ ~AnyTriple(board))
    /\ (winner = null) <=> (~Full(board) /\ ~AnyTriple(board))

\* C16: between two consecutive restartGame or resetAll operations the sum
\* of the two scores grows by at most 1.
C16_OnePointPerRound == roundPoints <= 1

\* C17: while the round has no result, the turn is the starting mark's
\* exactly when the board holds as many X as O, and otherwise the board
\* holds one more mark of the starting mark than of the other.
Count(b, m) == Cardinality({i \in CellIdx : b[i] = m})
C17_TurnMatchesBoard ==
    winner = null
       => LET s == startingPlayer
              o == IF s = "X" THEN "O" ELSE "X"
          IN IF current = s
             THEN Count(board, "X") = Count(board, "O")
             ELSE Count(board, s) = Count(board, o) + 1

\* C18: at most one computer move is pending at any time, and a computer
\* move is scheduled only by a step that enters the state with opponent
\* mode on, no result and O to move.
InS == aiMode /\ winner = null /\ current = "O"
C18_AtMostOnePending ==
    /\ [](Len(timers) <= 1)
    /\ [][Len(timers') > Len(timers) => (~InS /\ InS')]_vars

\* C20: a user click made while the opponent mode is on and it is O's turn
\* places no mark.
C20_UserNeverPlacesO ==
    [][\A i \in CellIdx :
          (aiMode /\ current = "O" /\ UserMakeMove(i)) => board' = board]_vars

\* C19: in a state with opponent mode on, no result and O to move a
\* computer move is pending, and, timers firing eventually, the state is
\* eventually left: by a computer move, which places an O, or by a user
\* operation.  (A timer that would score beyond the limit of the
\* exploration cannot fire; the states at that limit are left out.)
C19_ComputerMoveEventually ==
    /\ [](InS => timers # <<>>)
    /\ (InS /\ score.X + score.O < lim.score) ~> ~InS

\* a computer move has fired and the round goes on with X to move
C19_Witness ==
    /\ aiMode
    /\ scheduled > 0
    /\ timers = <<>>
    /\ winner = null
    /\ current = "X"
    /\ Count(board, "O") > 0

TypeOK ==
    /\ current \in Player
    /\ aiMode \in BOOLEAN
    /\ winner \in Player \cup {"Draw", null}
    /\ startingPlayer \in Player
====
